---- MODULE Spec2Model ----
(***************************************************************************)
(* Admission webhook of grafana-operator-webhook (src/main.go).            *)
(*                                                                         *)
(* handleAdmissionReview is run by net/http once per inbound request, each *)
(* run on its own goroutine.  A run owns its locals (the decoded review,   *)
(* oldObj, newObj, the three flags, the response under construction) and   *)
(* shares only the two Prometheus vectors processedTotal and               *)
(* requestDuration.  A run is cut into steps at the places where it        *)
(* touches the shared vectors or the ResponseWriter.                       *)
(***************************************************************************)
EXTENDS Integers, Sequences, FiniteSets, TLC

\* Number of requests the server handles, each on its own goroutine.
MaxInFlight == 2

Handlers == 1..MaxInFlight

\* net/http status codes used by the handler.
StatusOK == 200
StatusBadRequest == 400
StatusInternalServerError == 500

(***************************************************************************)
(* JSON text, as far as encoding/json distinguishes it.  A text is a       *)
(* tuple whose first element is its syntactic class.  Numbers keep their   *)
(* literal ("1" and "1.0" are different texts).  <<"empty">> is the        *)
(* zero-length RawExtension.Raw left by an absent or null field.           *)
(***************************************************************************)
JEmpty == <<"empty">>
JNull == <<"null">>
JStr(s) == <<"str", s>>
JNum(lit) == <<"num", lit>>
JArr(elems) == <<"arr", elems>>
JObj(members) == <<"obj", members>>

(***************************************************************************)
(* Go values produced by json.Unmarshal into interface{}: nil, string,     *)
(* float64, []interface{} and map[string]interface{}.  A map is the set of *)
(* its <<key, value>> entries.                                             *)
(***************************************************************************)
GoNil == <<"nil">>
GoString(s) == <<"string", s>>
GoFloat64(n) == <<"float64", n>>
GoSlice(elems) == <<"slice", elems>>
GoMap(entries) == <<"map", entries>>

\* strconv.ParseFloat on the number literals that occur in the inputs.
ParseFloat(lit) ==
  CASE lit = "1" -> 1
    [] lit = "1.0" -> 1
    [] lit = "2" -> 2
    [] OTHER -> 0

\* json.Unmarshal of a JSON text into an interface{} value.
RECURSIVE Unmarshal(_)
Unmarshal(j) ==
  CASE j[1] = "null" -> GoNil
    [] j[1] = "str" -> GoString(j[2])
    [] j[1] = "num" -> GoFloat64(ParseFloat(j[2]))
    [] j[1] = "arr" -> GoSlice([i \in DOMAIN j[2] |-> Unmarshal(j[2][i])])
    [] j[1] = "obj" -> GoMap({<<e[1], Unmarshal(e[2])>> : e \in j[2]})

\* json.Unmarshal(raw, &obj) with obj a map[string]interface{}: an object
\* fills the map, null leaves the nil map, anything else (no bytes at all,
\* an array, a scalar) is an error.
UnmarshalObjectFails(raw) == raw[1] \notin {"obj", "null"}

UnmarshalObject(raw) ==
  IF raw[1] = "obj" THEN Unmarshal(raw)[2] ELSE {}

\* Go's m[key] on a map[string]interface{}: the zero value nil when the key
\* is missing.
HasKey(m, key) == \E e \in m : e[1] = key

MapIndex(m, key) ==
  IF HasKey(m, key) THEN (CHOOSE e \in m : e[1] = key)[2] ELSE GoNil

\* Go's v.(map[string]interface{}) with the comma-ok form.
IsMap(v) == v[1] = "map"

\* Go's delete(m, key).
MapDelete(m, key) == {e \in m : e[1] # key}

\* m[key] = v
MapStore(m, key, v) == MapDelete(m, key) \cup {<<key, v>>}

\* reflect.DeepEqual on two interface{} values.
RECURSIVE DeepEqual(_, _)
DeepEqual(a, b) ==
  IF a[1] # b[1] THEN FALSE
  ELSE CASE a[1] = "nil" -> TRUE
         [] a[1] = "string" -> a[2] = b[2]
         [] a[1] = "float64" -> a[2] = b[2]
         [] a[1] = "slice" ->
              /\ Len(a[2]) = Len(b[2])
              /\ \A i \in DOMAIN a[2] : DeepEqual(a[2][i], b[2][i])
         [] a[1] = "map" ->
              /\ Cardinality(a[2]) = Cardinality(b[2])
              /\ \A e \in a[2] :
                   /\ HasKey(b[2], e[1])
                   /\ DeepEqual(e[2], MapIndex(b[2], e[1]))

\* cleanupMetadata with the delete of generation left out.
cleanupMetadata_KeepsGeneration(obj) ==
  IF IsMap(MapIndex(obj, "metadata"))
  THEN MapStore(obj, "metadata",
         GoMap(MapDelete(MapIndex(obj, "metadata")[2], "managedFields")))
  ELSE obj

\* cleanupMetadata(obj): delete managedFields and generation from
\* obj["metadata"] when that is a map.
cleanupMetadata(obj) ==
  IF IsMap(MapIndex(obj, "metadata"))
  THEN MapStore(obj, "metadata",
         GoMap(MapDelete(MapDelete(MapIndex(obj, "metadata")[2],
                                   "managedFields"), "generation")))
  ELSE obj

\* removeReconciledAt that installs an empty status when there is no status map.
removeReconciledAt_MakesStatus(obj) ==
  IF IsMap(MapIndex(obj, "status"))
  THEN MapStore(obj, "status",
         GoMap(MapDelete(MapIndex(obj, "status")[2], "reconciledAt")))
  ELSE MapStore(obj, "status", GoMap({}))

\* removeReconciledAt(obj): delete reconciledAt from obj["status"] when that
\* is a map.
removeReconciledAt(obj) ==
  IF IsMap(MapIndex(obj, "status"))
  THEN MapStore(obj, "status",
         GoMap(MapDelete(MapIndex(obj, "status")[2], "reconciledAt")))
  ELSE obj

(***************************************************************************)
(* Request bodies.  A body is unreadable (io.ReadAll fails), is not JSON,  *)
(* or is an AdmissionReview envelope, with or without its request field.   *)
(* OldObject and Object are the RawExtension.Raw texts of the request.     *)
(***************************************************************************)
Review(uid, operation, kind, oldObject, object) ==
  [form |-> "review", UID |-> uid, Operation |-> operation, Kind |-> kind,
   OldObject |-> oldObject, Object |-> object]

NoReview(form) ==
  [form |-> form, UID |-> "", Operation |-> "", Kind |-> "",
   OldObject |-> JEmpty, Object |-> JEmpty]

Update == "UPDATE"

Operations == {"CREATE", "UPDATE", "DELETE", "CONNECT"}

\* A section of an object text: a missing member, or a member with a value.
Absent == <<"absent">>

Member(key, text) == IF text = Absent THEN {} ELSE {<<key, text>>}

ObjectText(metadata, spec, status) ==
  JObj(Member("metadata", metadata) \cup Member("spec", spec)
         \cup Member("status", status))

MetadataTexts ==
  { Absent, JNull, JStr("x"), JObj({}),
    JObj({<<"generation", JNum("1")>>}),
    JObj({<<"generation", JNum("2")>>, <<"managedFields", JArr(<<JStr("kubectl")>>)>>}),
    JObj({<<"name", JStr("a")>>}) }

SpecTexts ==
  { Absent, JNull, JObj({}), JObj({<<"k", JNum("1")>>}) }

StatusTexts ==
  { Absent, JNull, JArr(<<>>), JObj({}),
    JObj({<<"reconciledAt", JStr("t1")>>}),
    JObj({<<"reconciledAt", JStr("t2")>>}),
    JObj({<<"uid", JStr("abc123")>>}) }

\* The objects of the repository's tests.
EmptySections == ObjectText(JObj({}), JObj({}), JObj({}))

StatusWith(key, value) ==
  ObjectText(JObj({}), JObj({}), JObj({<<key, JStr(value)>>}))

\* Objects beside the product of the section texts: the tests' objects, a
\* number written with a fraction, volatile keys next to ordinary ones.
ExtraTexts ==
  { StatusWith("uid", "def456"),
    StatusWith("lastResync", "2024-03-20T12:00:00Z"),
    StatusWith("lastResync", "2024-03-21T12:00:00Z"),
    ObjectText(Absent, JObj({<<"k", JNum("1.0")>>}), Absent),
    ObjectText(JObj({<<"name", JStr("a")>>, <<"generation", JNum("1")>>,
                     <<"managedFields", JArr(<<>>)>>}),
               JObj({}),
               JObj({<<"uid", JStr("abc123")>>, <<"reconciledAt", JStr("t1")>>})) }

ObjectTexts ==
  { ObjectText(m, s, st) : m \in MetadataTexts, s \in SpecTexts, st \in StatusTexts }
  \cup ExtraTexts

\* Raw texts json.Unmarshal cannot put into a map.
BadTexts == { JEmpty, JArr(<<>>), JStr("x") }

ErrorBodies == { NoReview("unreadable"), NoReview("malformed"), NoReview("norequest") }

\* Requests that take the fast path, with assorted object texts.
PassThroughTexts ==
  { JEmpty, JStr("x"), EmptySections, StatusWith("uid", "abc123"),
    StatusWith("lastResync", "2024-03-20T12:00:00Z"),
    StatusWith("lastResync", "2024-03-21T12:00:00Z") }

PassThroughBodies ==
  { Review(u, op, "Application", o, n) :
      u \in {"uuid"}, op \in Operations \ {Update},
      o \in PassThroughTexts, n \in PassThroughTexts }
  \cup
  { Review("test-uid-status-change", op, "GrafanaDashboard", o, n) :
      op \in Operations, o \in PassThroughTexts, n \in PassThroughTexts }

\* UPDATE requests on the watched kind over every pair of object texts.
WatchedBodies ==
  { Review("test-uid", Update, "Application", o, n) :
      o \in ObjectTexts \cup BadTexts, n \in ObjectTexts \cup BadTexts }

ObjectBodies == ErrorBodies \cup PassThroughBodies \cup WatchedBodies

\* TestWebhookOperationHandler's CREATE request.
CreateFixture ==
  Review("uuid", "CREATE", "Application", EmptySections, EmptySections)

\* A small mix of requests for concurrent handling.
TrafficBodies ==
  ErrorBodies \cup
  { CreateFixture,
    Review("uuid", "DELETE", "Application", EmptySections, EmptySections),
    Review("uuid", "CONNECT", "Application", JEmpty, JStr("x")),
    Review("test-uid-status-change", Update, "GrafanaDashboard",
           StatusWith("lastResync", "2024-03-20T12:00:00Z"),
           StatusWith("lastResync", "2024-03-21T12:00:00Z")),
    Review("test-uid-status-sync-revision-change", Update, "Application",
           StatusWith("uid", "abc123"), StatusWith("uid", "def456")),
    Review("test-uid", Update, "Application", EmptySections, EmptySections),
    Review("test-uid-2", Update, "Application",
           ObjectText(JObj({<<"generation", JNum("1")>>}), JObj({}), JObj({})),
           ObjectText(JObj({<<"generation", JNum("2")>>}), JObj({}), JObj({}))),
    Review("test-uid", Update, "Application", JEmpty, EmptySections),
    Review("test-uid-2", Update, "Application", EmptySections, JArr(<<>>)) }

(***************************************************************************)
(* admissionv1.AdmissionResponse and metav1.Status, with Go's zero values. *)
(***************************************************************************)
NilResult == [isNil |-> TRUE, Status |-> "", Message |-> "", Code |-> 0]

NilResponse == [isNil |-> TRUE, UID |-> "", Allowed |-> FALSE, Result |-> NilResult]

\* The default response with the UID left at its zero value.
DefaultResponse_NoUID(request) ==
  [isNil |-> FALSE, UID |-> "", Allowed |-> TRUE, Result |-> NilResult]

\* The default response: the request's UID, Allowed true, no Result.
DefaultResponse(request) ==
  [isNil |-> FALSE, UID |-> request.UID, Allowed |-> TRUE, Result |-> NilResult]

\* The response of a no-op update.
DeniedResponse(resp) ==
  [resp EXCEPT !.Allowed = FALSE,
               !.Result = [isNil |-> FALSE, Status |-> "Success",
                           Message |-> "Update successful.", Code |-> StatusOK]]

\* The response of a significant update.
AllowedResponse(resp) == [resp EXCEPT !.Allowed = TRUE]

\* The fast-path condition with the test of the kind left out.
NotProcessed_IgnoresKind(request) == request.Operation # Update

\* The fast-path condition: anything but an UPDATE of an Application.
NotProcessed(request) ==
  request.Operation # Update \/ request.Kind # "Application"

\* The flags with the status comparison left out.
Flags_WithoutStatus(old, new) ==
  [metadata |-> ~DeepEqual(MapIndex(old, "metadata"), MapIndex(new, "metadata")),
   spec |-> ~DeepEqual(MapIndex(old, "spec"), MapIndex(new, "spec")),
   status |-> FALSE]

\* The three flags computed from the normalized objects.
Flags(old, new) ==
  [metadata |-> ~DeepEqual(MapIndex(old, "metadata"), MapIndex(new, "metadata")),
   spec |-> ~DeepEqual(MapIndex(old, "spec"), MapIndex(new, "spec")),
   status |-> ~DeepEqual(MapIndex(old, "status"), MapIndex(new, "status"))]

NoFlags == [metadata |-> FALSE, spec |-> FALSE, status |-> FALSE]

AnyChanged(flags) == flags.metadata \/ flags.spec \/ flags.status

\* fmt.Sprintf("%t", ...): the label of the histogram observation.
FormatBool(b) == IF b THEN "true" ELSE "false"

Labels == {"true", "false"}

\* An increment that always goes to the "true" child.
Inc_IgnoresLabel(vec, label) == [vec EXCEPT !["true"] = @ + 1]

\* CounterVec.WithLabelValues(label).Inc()
Inc(vec, label) == [vec EXCEPT ![label] = @ + 1]

\* An observation written over a stale count: concurrent observations are lost.
Observe_Overwrites(vec, label) == [vec EXCEPT ![label] = 1]

\* HistogramVec.WithLabelValues(label).Observe(d): the observation count.
Observe(vec, label) == [vec EXCEPT ![label] = @ + 1]

\* What a handler has written to its http.ResponseWriter.
NothingWritten == [code |-> 0, text |-> "", review |-> NilResponse]

\* http.Error(w, text, code)
HttpError(text, code) == [code |-> code, text |-> text, review |-> NilResponse]

\* sendResponse(w, admissionReviewResp): the first Write sends status 200.
sendResponse(resp) == [code |-> StatusOK, text |-> "", review |-> resp]

VARIABLES
  pc,                   \* where each handler is in handleAdmissionReview
  body,                 \* the request body each handler was given
  oldObj, newObj,       \* each handler's parsed and normalized objects
  changed,              \* each handler's metadataChanged/specChanged/statusChanged
  admissionReviewResp,  \* each handler's response under construction
  w,                    \* each handler's http.ResponseWriter
  processedTotal,       \* argocd_webhook_processed_total, by label
  requestDuration       \* argocd_webhook_request_duration observation count, by label

vars ==
  <<pc, body, oldObj, newObj, changed, admissionReviewResp, w,
    processedTotal, requestDuration>>

locals == <<oldObj, newObj, changed, admissionReviewResp>>

metrics == <<processedTotal, requestDuration>>

InitWith(bodies) ==
  /\ body = bodies
  /\ pc = [p \in Handlers |-> "start"]
  /\ oldObj = [p \in Handlers |-> {}]
  /\ newObj = [p \in Handlers |-> {}]
  /\ changed = [p \in Handlers |-> NoFlags]
  /\ admissionReviewResp = [p \in Handlers |-> NilResponse]
  /\ w = [p \in Handlers |-> NothingWritten]
  /\ processedTotal = [l \in Labels |-> 0]
  /\ requestDuration = [l \in Labels |-> 0]

\* Any mix of requests in flight.
Init == \E bodies \in [Handlers -> TrafficBodies] : InitWith(bodies)

\* One request over the whole range of objects, beside fixture traffic.
InitObjects ==
  \E b \in ObjectBodies :
    InitWith([p \in Handlers |-> IF p = 1 THEN b ELSE CreateFixture])

\* A handler returns: it writes `written` (or nothing) and ends in `at`.
Return(p, at, written) ==
  /\ pc' = [pc EXCEPT ![p] = at]
  /\ w' = [w EXCEPT ![p] = written]
  /\ UNCHANGED <<body, locals, metrics>>

\* main.go 59-63: the body cannot be read.
ReadAllFails(p) ==
  /\ pc[p] = "start"
  /\ body[p].form = "unreadable"
  /\ Return(p, "failed", HttpError("failed to read request body", StatusInternalServerError))

\* main.go 65-69: the body is not an AdmissionReview in JSON.
UnmarshalFails(p) ==
  /\ pc[p] = "start"
  /\ body[p].form = "malformed"
  /\ Return(p, "failed", HttpError("failed to unmarshal request", StatusBadRequest))

\* main.go 78: Request is nil and admissionReviewReq.Request.UID panics; net/http
\* recovers the panic and drops the connection with nothing written.
NilRequest(p) ==
  /\ pc[p] = "start"
  /\ body[p].form = "norequest"
  /\ Return(p, "panicked", NothingWritten)

\* main.go 72-87: the fast path.
PassThrough(p) ==
  /\ pc[p] = "start"
  /\ body[p].form = "review"
  /\ NotProcessed(body[p])
  /\ pc' = [pc EXCEPT ![p] = "done"]
  /\ admissionReviewResp' = [admissionReviewResp EXCEPT ![p] = DefaultResponse(body[p])]
  /\ w' = [w EXCEPT ![p] = sendResponse(DefaultResponse(body[p]))]
  /\ UNCHANGED <<body, oldObj, newObj, changed, metrics>>

Processed(p) ==
  /\ pc[p] = "start"
  /\ body[p].form = "review"
  /\ ~NotProcessed(body[p])

\* main.go 91-95
ParseOldFails(p) ==
  /\ Processed(p)
  /\ UnmarshalObjectFails(body[p].OldObject)
  /\ pc' = [pc EXCEPT ![p] = "failed"]
  /\ admissionReviewResp' = [admissionReviewResp EXCEPT ![p] = DefaultResponse(body[p])]
  /\ w' = [w EXCEPT ![p] = HttpError("failed to parse old object", StatusInternalServerError)]
  /\ UNCHANGED <<body, oldObj, newObj, changed, metrics>>

\* main.go 97-101
ParseNewFails(p) ==
  /\ Processed(p)
  /\ ~UnmarshalObjectFails(body[p].OldObject)
  /\ UnmarshalObjectFails(body[p].Object)
  /\ pc' = [pc EXCEPT ![p] = "failed"]
  /\ admissionReviewResp' = [admissionReviewResp EXCEPT ![p] = DefaultResponse(body[p])]
  /\ oldObj' = [oldObj EXCEPT ![p] = UnmarshalObject(body[p].OldObject)]
  /\ w' = [w EXCEPT ![p] = HttpError("failed to parse new object", StatusInternalServerError)]
  /\ UNCHANGED <<body, newObj, changed, metrics>>

\* main.go 89-113: parse, normalize and compare.
Compare(p) ==
  /\ Processed(p)
  /\ ~UnmarshalObjectFails(body[p].OldObject)
  /\ ~UnmarshalObjectFails(body[p].Object)
  /\ LET old == removeReconciledAt(cleanupMetadata(UnmarshalObject(body[p].OldObject)))
         new == removeReconciledAt(cleanupMetadata(UnmarshalObject(body[p].Object)))
     IN /\ oldObj' = [oldObj EXCEPT ![p] = old]
        /\ newObj' = [newObj EXCEPT ![p] = new]
        /\ changed' = [changed EXCEPT ![p] = Flags(old, new)]
  /\ admissionReviewResp' = [admissionReviewResp EXCEPT ![p] = DefaultResponse(body[p])]
  /\ pc' = [pc EXCEPT ![p] = "compared"]
  /\ UNCHANGED <<body, w, metrics>>

\* main.go 115-126: no flag is set.
CountUnchanged(p) ==
  /\ pc[p] = "compared"
  /\ ~AnyChanged(changed[p])
  /\ admissionReviewResp' =
       [admissionReviewResp EXCEPT ![p] = DeniedResponse(admissionReviewResp[p])]
  /\ processedTotal' = Inc(processedTotal, "false")
  /\ pc' = [pc EXCEPT ![p] = "counted"]
  /\ UNCHANGED <<body, oldObj, newObj, changed, w, requestDuration>>

\* main.go 127-141: some flag is set.
CountChanged(p) ==
  /\ pc[p] = "compared"
  /\ AnyChanged(changed[p])
  /\ admissionReviewResp' =
       [admissionReviewResp EXCEPT ![p] = AllowedResponse(admissionReviewResp[p])]
  /\ processedTotal' = Inc(processedTotal, "true")
  /\ pc' = [pc EXCEPT ![p] = "counted"]
  /\ UNCHANGED <<body, oldObj, newObj, changed, w, requestDuration>>

\* main.go 143
Send(p) ==
  /\ pc[p] = "counted"
  /\ w' = [w EXCEPT ![p] = sendResponse(admissionReviewResp[p])]
  /\ pc' = [pc EXCEPT ![p] = "sent"]
  /\ UNCHANGED <<body, locals, metrics>>

\* main.go 146, 171-174
recordRequestDuration(p) ==
  /\ pc[p] = "sent"
  /\ requestDuration' = Observe(requestDuration, FormatBool(AnyChanged(changed[p])))
  /\ pc' = [pc EXCEPT ![p] = "done"]
  /\ UNCHANGED <<body, locals, w, processedTotal>>

handleAdmissionReview(p) ==
  \/ ReadAllFails(p)
  \/ UnmarshalFails(p)
  \/ NilRequest(p)
  \/ PassThrough(p)
  \/ ParseOldFails(p)
  \/ ParseNewFails(p)
  \/ Compare(p)
  \/ CountUnchanged(p)
  \/ CountChanged(p)
  \/ Send(p)
  \/ recordRequestDuration(p)

Next == \E p \in Handlers : handleAdmissionReview(p)

Spec == Init /\ [][Next]_vars

SpecObjects == InitObjects /\ [][Next]_vars

(***************************************************************************)
(* Properties.                                                             *)
(***************************************************************************)
Sections == {"metadata", "spec", "status"}

IsReview(p) == body[p].form = "review"

\* The request is an UPDATE of kind Application.
IsWatchedUpdate(p) ==
  IsReview(p) /\ body[p].Operation = "UPDATE" /\ body[p].Kind = "Application"

\* The old and the new object of the request both parse into a map.
WellFormed(p) ==
  /\ IsWatchedUpdate(p)
  /\ body[p].OldObject[1] = "obj"
  /\ body[p].Object[1] = "obj"

\* The objects of the request as decoded, before normalization.
DecodedOld(p) == Unmarshal(body[p].OldObject)[2]

DecodedNew(p) == Unmarshal(body[p].Object)[2]

\* The handler has answered with an admission response.
Answered(p) == ~w[p].review.isNil

\* The handler has returned.
Returned(p) == pc[p] \in {"done", "failed", "panicked"}

SuccessResult ==
  [isNil |-> FALSE, Status |-> "Success", Message |-> "Update successful.", Code |-> 200]

SomeSectionDiffers(p) ==
  \E s \in Sections : MapIndex(oldObj[p], s) # MapIndex(newObj[p], s)

Volatile(s) ==
  CASE s = "metadata" -> {"managedFields", "generation"}
    [] s = "status" -> {"reconciledAt"}
    [] OTHER -> {}

\* Section s is the same in a and b apart from its volatile keys.
SameApartFromVolatile(a, b, s) ==
  /\ HasKey(a, s) <=> HasKey(b, s)
  /\ IF IsMap(MapIndex(a, s)) /\ IsMap(MapIndex(b, s))
     THEN {e \in MapIndex(a, s)[2] : e[1] \notin Volatile(s)}
            = {e \in MapIndex(b, s)[2] : e[1] \notin Volatile(s)}
     ELSE MapIndex(a, s) = MapIndex(b, s)

DifferOnlyInVolatile(a, b) ==
  /\ a # b
  /\ \A s \in Sections : SameApartFromVolatile(a, b, s)

\* C3: an UPDATE of kind Application whose objects differ only in
\* metadata.managedFields, metadata.generation and status.reconciledAt
\* (added, removed or changed) is treated as unchanged and denied.
C3_VolatileIgnored ==
  \A p \in Handlers :
    ( /\ WellFormed(p) /\ pc[p] \in {"sent", "done"}
      /\ DifferOnlyInVolatile(DecodedOld(p), DecodedNew(p)) )
    => /\ ~w[p].review.Allowed
       /\ w[p].review.Result = SuccessResult

\* An update denied although generation changed, managedFields was added and
\* reconciledAt was removed.
C3_Witness ==
  \E p \in Handlers :
    /\ WellFormed(p) /\ pc[p] = "done"
    /\ body[p].OldObject =
         ObjectText(JObj({<<"generation", JNum("1")>>}), JObj({}),
                    JObj({<<"reconciledAt", JStr("t1")>>}))
    /\ body[p].Object =
         ObjectText(JObj({<<"generation", JNum("2")>>,
                          <<"managedFields", JArr(<<JStr("kubectl")>>)>>}),
                    JObj({}), JObj({}))
    /\ ~w[p].review.Allowed

\* TestHandleAdmissionReview_StatusReconciledAtChange's request.
DashboardFixture ==
  Review("test-uid-status-change", "UPDATE", "GrafanaDashboard",
         StatusWith("lastResync", "2024-03-20T12:00:00Z"),
         StatusWith("lastResync", "2024-03-21T12:00:00Z"))

\* C4: an UPDATE of kind GrafanaDashboard whose objects differ only in
\* status.lastResync is answered with HTTP 200 and a response that carries
\* the uid of the request and allowed=false.
C4_DashboardResyncDenied ==
  \A p \in Handlers :
    (body[p] = DashboardFixture /\ Returned(p))
    => /\ w[p].code = 200
       /\ Answered(p)
       /\ w[p].review.UID = body[p].UID
       /\ ~w[p].review.Allowed

\* C5: every admission response, while it is built and when it is sent,
\* carries the uid of the request its handler was given, also with several
\* requests in flight.
C5_UIDEcho ==
  \A p \in Handlers :
    /\ ~admissionReviewResp[p].isNil => admissionReviewResp[p].UID = body[p].UID
    /\ Answered(p) => w[p].review.UID = body[p].UID

\* Two requests with different uids have both been answered, one on the fast
\* path and one denied.
C5_Witness ==
  \E p, q \in Handlers :
    /\ Answered(p) /\ Answered(q)
    /\ w[p].review.UID # w[q].review.UID
    /\ ~IsWatchedUpdate(p)
    /\ IsWatchedUpdate(q) /\ ~w[q].review.Allowed

\* Every request has been answered with an admission response.
AllAnswered == \A p \in Handlers : pc[p] = "done"

\* C6 as stated: once every request has returned without an error, each of
\* them, pass-through requests included, has incremented exactly one of the
\* two counters, so the counters add up to the number of requests, with
\* change="true" counting the allowed ones that were found changed.
C6_EveryRequestCounted ==
  AllAnswered
  => processedTotal["true"] + processedTotal["false"] = Cardinality(Handlers)

\* C6: once every request has returned without an error, change="true" reads
\* the number of UPDATE requests of kind Application that were allowed,
\* change="false" the number of those that were denied, and the pass-through
\* requests have incremented neither.
C6_CounterAccounting ==
  AllAnswered
  => /\ processedTotal["true"] =
          Cardinality({p \in Handlers : IsWatchedUpdate(p) /\ w[p].review.Allowed})
     /\ processedTotal["false"] =
          Cardinality({p \in Handlers : IsWatchedUpdate(p) /\ ~w[p].review.Allowed})

\* A pass-through request and a denied update have both been answered: one
\* request is counted, under change="false", the other not at all.
C6_Witness ==
  /\ AllAnswered
  /\ \E p, q \in Handlers :
       /\ ~IsWatchedUpdate(p)
       /\ IsWatchedUpdate(q) /\ ~w[q].review.Allowed
  /\ processedTotal["false"] = 1
  /\ processedTotal["true"] = 0

\* The request cannot be decided: its body is not JSON, its envelope has no
\* request, or it is an UPDATE of kind Application with an unparseable object.
RequestFatal(p) ==
  \/ body[p].form \in {"malformed", "norequest"}
  \/ IsWatchedUpdate(p) /\ ~WellFormed(p)

\* The handlers that have incremented a counter, that have made an observation.
HasCounted(p) == IsWatchedUpdate(p) /\ pc[p] \in {"counted", "sent", "done"}

HasObserved(p) == IsWatchedUpdate(p) /\ pc[p] = "done"

OwnLabel(p) == IF AnyChanged(changed[p]) THEN "true" ELSE "false"

\* C7: a request that cannot be decided gets no admission response and an
\* HTTP error status (400 for a body that is not JSON, otherwise 4xx or 5xx),
\* and leaves the counters and the histogram as they were.
C7_RequestFatalErrors ==
  \A p \in Handlers :
    (RequestFatal(p) /\ pc[p] # "start")
    => /\ ~Answered(p)
       /\ w[p].code \in 400..599
       /\ body[p].form = "malformed" => w[p].code = 400
       /\ ~HasCounted(p) /\ ~HasObserved(p)

\* C8: under every interleaving each counter reads the number of handlers
\* that have incremented it and each histogram child holds one observation
\* per handler that has recorded one; and what a handler answers depends on
\* its own request alone.
C8_NoLostUpdates ==
  /\ \A l \in Labels :
       /\ processedTotal[l] =
            Cardinality({p \in Handlers : HasCounted(p) /\ OwnLabel(p) = l})
       /\ requestDuration[l] =
            Cardinality({p \in Handlers : HasObserved(p) /\ OwnLabel(p) = l})
  /\ \A p, q \in Handlers :
       (body[p] = body[q] /\ Returned(p) /\ Returned(q)) => w[p] = w[q]

\* Two updates have been denied and recorded while they were in flight
\* together.
C8_Witness ==
  /\ processedTotal["false"] = 2
  /\ requestDuration["false"] = 2
  /\ \E p, q \in Handlers : p # q /\ body[p] # body[q] /\ HasObserved(p) /\ HasObserved(q)

\* The handler holds its normalized objects.
Normalized(p) == WellFormed(p) /\ pc[p] # "start"

Normalize(obj) == removeReconciledAt(cleanupMetadata(obj))

\* No volatile path is present in obj (metadata or status may be missing or
\* be no mapping at all).
LacksVolatile(obj) ==
  \A s \in Sections :
    IsMap(MapIndex(obj, s))
    => \A e \in MapIndex(obj, s)[2] : e[1] \notin Volatile(s)

\* C9: normalizing an object that was already normalized gives the same
\* object, and normalizing an object without any volatile path (without
\* metadata or status, or with one that is no mapping) changes nothing and
\* fails on no object.
C9_NormalizationIdempotent ==
  \A p \in Handlers :
    /\ WellFormed(p) => pc[p] \notin {"failed", "panicked"}
    /\ Normalized(p) =>
         /\ Normalize(oldObj[p]) = oldObj[p]
         /\ Normalize(newObj[p]) = newObj[p]
         /\ LacksVolatile(oldObj[p]) /\ LacksVolatile(newObj[p])
         /\ LacksVolatile(DecodedOld(p)) => oldObj[p] = DecodedOld(p)
         /\ LacksVolatile(DecodedNew(p)) => newObj[p] = DecodedNew(p)

\* A handler has normalized an old object with volatile keys in metadata and
\* in status and a new object without metadata whose status is no mapping.
C9_Witness ==
  \E p \in Handlers :
    /\ Normalized(p)
    /\ IsMap(MapIndex(DecodedOld(p), "metadata"))
    /\ IsMap(MapIndex(DecodedOld(p), "status"))
    /\ HasKey(MapIndex(DecodedOld(p), "metadata")[2], "generation")
    /\ HasKey(MapIndex(DecodedOld(p), "metadata")[2], "managedFields")
    /\ HasKey(MapIndex(DecodedOld(p), "status")[2], "reconciledAt")
    /\ oldObj[p] # DecodedOld(p)
    /\ ~HasKey(DecodedNew(p), "metadata")
    /\ MapIndex(DecodedNew(p), "status")[1] = "slice"
    /\ newObj[p] = DecodedNew(p)

\* C10: a section missing from both objects counts as equal; a section whose
\* key is in exactly one of them counts as changed, so that the update is
\* allowed, whatever the value under the key, null included.
C10_SectionPresence ==
  \A p \in Handlers :
    (WellFormed(p) /\ pc[p] \in {"sent", "done"})
    => \A s \in Sections :
         /\ (~HasKey(DecodedOld(p), s) /\ ~HasKey(DecodedNew(p), s)) => ~changed[p][s]
         /\ (HasKey(DecodedOld(p), s) # HasKey(DecodedNew(p), s))
              => changed[p][s] /\ w[p].review.Allowed
====
